---- MODULE Spec2Model ----
(***************************************************************************)
(* A model of oaipmh/server.py: the OAI-PMH responder.                     *)
(*                                                                         *)
(*   Server          the backend interface (base class)                    *)
(*   XMLTreeServer   builds one lxml tree per verb                         *)
(*   XMLServer       resolves a verb name, calls the tree server and       *)
(*                   serializes the tree                                   *)
(*   oai_dc_writer   the default Dublin Core metadata writer               *)
(*                                                                         *)
(* One call of XMLServer.handleVerb is one behaviour.  The for-loops of    *)
(* the list verbs are unrolled into one step per pull of the backend       *)
(* sequence and one step per rendered fragment, so that the tree under     *)
(* construction is visible between the steps.                              *)
(*                                                                         *)
(* Python values: strings are TLA+ strings, lists are sequences, dicts     *)
(* are functions, None is the string "None", an lxml element is a record   *)
(* [tag, nsmap, attrs, text, children].  An exception is the name of its   *)
(* class.                                                                  *)
(***************************************************************************)
EXTENDS Integers, Sequences, FiniteSets, TLC

\* The longest sequence a backend yields in one call.
MaxItems == 2

None == "None"
Absent == "<absent>"
NoError == "none"

NS_OAIPMH == "http://www.openarchives.org/OAI/2.0/"
NS_XSI == "http://www.w3.org/2001/XMLSchema-instance"
NS_OAIDC == "http://www.openarchives.org/OAI/2.0/oai_dc/"
NS_DC == "http://purl.org/dc/elements/1.1/"

nsmap == { <<None, NS_OAIPMH>>, <<"xsi", NS_XSI>>,
           <<"oai_dc", NS_OAIDC>>, <<"dc", NS_DC>> }

nsoai(name) == "{" \o NS_OAIPMH \o "}" \o name

nsoaidc(name) == "{" \o NS_OAIDC \o "}" \o name

nsdc(name) == "{" \o NS_DC \o "}" \o name

(***************************************************************************)
(* lxml: Element, SubElement, set, .text                                   *)
(***************************************************************************)
Element(tag) ==
    [tag |-> tag, nsmap |-> {}, attrs |-> {}, text |-> None, children |-> <<>>]

\* element.set(key, value): one value per attribute name
SetAttr(el, key, value) ==
    [el EXCEPT !.attrs = {a \in @ : a[1] # key} \cup {<<key, value>>}]

\* an element with its text assigned, as in  e = SubElement(..); e.text = t
TextElement(tag, text) == [Element(tag) EXCEPT !.text = text]

\* SubElement(parent, ..): the new element becomes the last child
SubElement(parent, child) ==
    [parent EXCEPT !.children = Append(@, child)]

\* The outcome of a call: what it raised (NoError: it returned) and its
\* value, <<v>> for a value v and <<>> for None.  A call that raised while
\* building a tree carries the tree built so far.
Ok(v) == [raised |-> NoError, value |-> <<v>>]

ReturnsNone == [raised |-> NoError, value |-> <<>>]

Raise(exc, built) == [raised |-> exc, value |-> built]

(***************************************************************************)
(* The state of one call of handleVerb.                                    *)
(*   server    the backend: the operations it does not implement           *)
(*   pc        idle; loop: at a for statement, before the next element;    *)
(*             body: an element is pulled and not rendered; metadata:      *)
(*             listRecords between _outputHeader and _outputMetadata; done *)
(*   verb, method, args   the verb passed, the method it resolved to and   *)
(*             the arguments the method was called with                    *)
(*   tree      <<root>>: the tree under construction; <<>>: none           *)
(*   yielded   the elements pulled from the backend sequence so far        *)
(*   fetched   those of them not rendered yet                              *)
(*   ident     <<identity>>: what the backend's identify() gave the body   *)
(*             of identify                                                 *)
(*   raised    the exception the caller gets, NoError for none             *)
(*   result    <<bytes>>: what handleVerb returned; <<>>: nothing          *)
(***************************************************************************)
VARIABLES server, pc, verb, method, args, tree, yielded, fetched, ident,
          raised, result

vars == <<server, pc, verb, method, args, tree, yielded, fetched, ident,
          raised, result>>

(***************************************************************************)
(* The backend: an object with the interface of class Server.  Its data    *)
(* is outside this module; every answer it gives is drawn from the small   *)
(* sets below.                                                             *)
(***************************************************************************)
Ops == {"getRecord", "identify", "listIdentifiers", "listMetadataFormats",
        "listRecords", "listSets"}

\* The operations a backend does not implement: none (a complete backend),
\* all but identify (class Server with only _getEarliestDatestamp
\* overridden), all (class Server as it stands).
Backends == { {}, Ops \ {"identify"}, Ops }

\* What class Server raises for an operation it does not implement.
\* getRecord says  raise notImplementedError : an unbound name.
ServerSignal(op) ==
    IF op = "getRecord" THEN "NameError" ELSE "NotImplementedError"

\* a call of backend operation op that would return value
ServerCall(op, value) ==
    IF op \in server.unsupported THEN Raise(ServerSignal(op), <<>>)
    ELSE Ok(value)

\* datetime values; datetime.utcnow() reads one of Clock
Datetimes == { [date |-> "2004-02-29", time |-> "12:30:45", micro |-> 0],
               [date |-> "2004-02-29", time |-> "12:30:45", micro |-> 500000] }

Clock == Datetimes

\* datetime.replace(microsecond=0)
replace_microsecond(dt) == [dt EXCEPT !.micro = 0]

\* common.datetime_to_datestamp: YYYY-MM-DDThh:mm:ssZ
datetime_to_datestamp(dt) == dt.date \o "T" \o dt.time \o "Z"

\* A Python list, or a Python str (which != any list and iterates over its
\* characters).
PyList(items) == [kind |-> "list", items |-> items]

PyStr(chars) == [kind |-> "str", items |-> chars]

\* The compression values a backend's identity carries.  Server.identify
\* passes the str 'identity', not a list.
Compressions ==
    { PyList(<<"identity">>), PyList(<<>>), PyList(<<"gzip", "deflate">>),
      PyList(<<"identity", "gzip">>),
      PyStr(<<"i", "d", "e", "n", "t", "i", "t", "y">>) }

AdminEmailLists == { <<"a@example.org">>,
                     <<"a@example.org", "b@example.org">> }

\* common.ServerIdentify as Server.identify fills it
Identities ==
    [ repositoryName : {"Repo"},
      baseURL : {"http://example.org/oai"},
      protocolVersion : {"2.0"},
      adminEmails : AdminEmailLists,
      earliestDatestamp : {CHOOSE d \in Datetimes : d.micro = 0},
      deletedRecord : {"transient"},
      granularity : {"YYYY-MM-DDThh:mm:ssZ"},
      compression : Compressions ]

\* common.Header: identifier(), datestamp(), setSpec()
Headers ==
    { [identifier |-> "oai:1", datestamp |-> CHOOSE d \in Datetimes : d.micro = 0,
       setSpec |-> <<>>],
      [identifier |-> "oai:2", datestamp |-> CHOOSE d \in Datetimes : d.micro = 0,
       setSpec |-> <<"a:b", "a:c">>] }

\* the keys of a metadata map and the list each carries when present:
\* two of the Dublin Core fields, later field first, and a key that is none
MapKeys == {"creator", "title", "foo"}

MapValue(key) ==
    CASE key = "title" -> <<"A">>
      [] key = "creator" -> <<"B", "C">>
      [] OTHER -> <<"X">>

\* metadata.getMap(): field name -> list of values
Maps == { [k \in S |-> MapValue(k)] : S \in SUBSET MapKeys }

\* (header, metadata, about) as the backend's listRecords yields them
Records == { <<h, m, None>> : h \in Headers, m \in Maps }

\* (metadataPrefix, schema, metadataNamespace)
Formats ==
    { <<"oai_dc", "http://www.openarchives.org/OAI/2.0/oai_dc.xsd", NS_OAIDC>>,
      <<"marc", "http://example.org/marc.xsd", "http://example.org/marc/">> }

\* what a backend sequence of the given operation yields
Items(op) ==
    CASE op = "listIdentifiers" -> Headers
      [] op = "listRecords" -> Records
      [] op = "listMetadataFormats" -> Formats
      [] OTHER -> {}

(***************************************************************************)
(* oai_dc_writer and the metadata registry                                 *)
(***************************************************************************)
\* a variant that walks the fields in the order of a sorted dictionary
DC_FIELDS_sorted ==
    << "contributor", "coverage", "creator", "date", "description",
       "format", "identifier", "language", "publisher", "relation",
       "rights", "source", "subject", "title", "type" >>

\* the field list oai_dc_writer walks
DC_FIELDS ==
    << "title", "creator", "subject", "description", "publisher",
       "contributor", "date", "type", "format", "identifier",
       "source", "language", "relation", "coverage", "rights" >>

\* map.get(name, [])
MapGet(map, name) == IF name \in DOMAIN map THEN map[name] ELSE <<>>

\* the inner loop: one element per value of one field
FieldElements(map, name) ==
    [i \in 1..Len(MapGet(map, name)) |->
        TextElement(nsdc(name), MapGet(map, name)[i])]

\* the outer loop over the field list
RECURSIVE WriteFields(_, _)
WriteFields(names, map) ==
    IF names = <<>> THEN <<>>
    ELSE FieldElements(map, Head(names)) \o WriteFields(Tail(names), map)

oai_dc_writer(element, metadata) ==
    LET e_dc == SetAttr(Element(nsoaidc("dc")),
                        "{" \o NS_XSI \o "}schemaLocation",
                        NS_DC \o " http://www.openarchives.org/OAI/2.0/oai_dc.xsd")
    IN  SubElement(element,
                   [e_dc EXCEPT !.children = WriteFields(DC_FIELDS, metadata)])

\* the prefixes the metadata registry has a writer for
Registered == {"oai_dc"}

\* metadata registry: writeMetadata(prefix, element, metadata) calls the
\* writer registered under the prefix, and fails for a prefix with none
writeMetadata(metadata_prefix, element, metadata) ==
    IF metadata_prefix \in Registered
    THEN Ok(oai_dc_writer(element, metadata))
    ELSE Raise("UnsupportedMetadataFormat", <<element>>)

(***************************************************************************)
(* XMLTreeServer                                                           *)
(***************************************************************************)
\* the keyword arguments that are not None
NotNone(kw) == {k \in DOMAIN kw : kw[k] # None}

\* a variant that forgets the rename of from_
AttrNameKept(key) == key

\* the attribute name a keyword is echoed under
AttrName(key) == IF key = "from_" THEN "from" ELSE key

\* a variant that appends request before responseDate
_outputEnvelopeSwapped(kw, now, identifyCall) ==
    LET e_oaipmh == [Element(nsoai("OAI-PMH")) EXCEPT !.nsmap = nsmap]
        e_responseDate ==
            TextElement(nsoai("responseDate"),
                        datetime_to_datestamp(replace_microsecond(now)))
        e_request ==
            [Element(nsoai("request")) EXCEPT
                !.attrs = {<<AttrName(k), kw[k]>> : k \in NotNone(kw)}]
    IN  IF identifyCall.raised # NoError
        THEN Raise(identifyCall.raised,
                   <<SubElement(SubElement(e_oaipmh, e_request), e_responseDate)>>)
        ELSE Ok(SubElement(SubElement(e_oaipmh,
                               [e_request EXCEPT
                                   !.text = identifyCall.value[1].baseURL]),
                           e_responseDate))

\* now: what datetime.utcnow() reads; identifyCall: what the backend's
\* identify() does
_outputEnvelope(kw, now, identifyCall) ==
    LET e_oaipmh ==
            SetAttr([Element(nsoai("OAI-PMH")) EXCEPT !.nsmap = nsmap],
                    "{" \o NS_XSI \o "}schemaLocation",
                    "http://www.openarchives.org/OAI/2.0/ "
                        \o "http://www.openarchives.org/OAI/2.0/OAI-PMH.xsd")
        e_responseDate ==
            TextElement(nsoai("responseDate"),
                        datetime_to_datestamp(replace_microsecond(now)))
        e_request ==
            [Element(nsoai("request")) EXCEPT
                !.attrs = {<<AttrName(k), kw[k]>> : k \in NotNone(kw)}]
    IN  IF identifyCall.raised # NoError
        THEN Raise(identifyCall.raised,
                   <<SubElement(SubElement(e_oaipmh, e_responseDate), e_request)>>)
        ELSE Ok(SubElement(SubElement(e_oaipmh, e_responseDate),
                           [e_request EXCEPT
                               !.text = identifyCall.value[1].baseURL]))

\* a variant that leaves the setSpec loop out
_outputHeaderNoSetSpec(element, header) ==
    SubElement(element,
               [Element(nsoai("header")) EXCEPT !.children =
                   << TextElement(nsoai("identifier"), header.identifier),
                      TextElement(nsoai("datestamp"),
                                  datetime_to_datestamp(header.datestamp)) >>])

_outputHeader(element, header) ==
    LET e_identifier == TextElement(nsoai("identifier"), header.identifier)
        e_datestamp == TextElement(nsoai("datestamp"),
                                   datetime_to_datestamp(header.datestamp))
        e_setSpecs == [i \in 1..Len(header.setSpec) |->
                          TextElement(nsoai("setSpec"), header.setSpec[i])]
    IN  SubElement(element,
                   [Element(nsoai("header")) EXCEPT
                       !.children = <<e_identifier, e_datestamp>> \o e_setSpecs])

_outputMetadata(element, metadata_prefix, metadata) ==
    LET e_metadata == Element(nsoai("metadata"))
        written == writeMetadata(metadata_prefix, e_metadata, metadata)
    IN  [raised |-> written.raised,
         value |-> <<SubElement(element, written.value[1])>>]

\* a variant without the special case of ['identity']
CompressionElementsAlways(compressions) ==
    [i \in 1..Len(compressions.items) |->
        TextElement(nsoai("compression"), compressions.items[i])]

\* the compression children of Identify
CompressionElements(compressions) ==
    IF compressions # PyList(<<"identity">>)
    THEN [i \in 1..Len(compressions.items) |->
             TextElement(nsoai("compression"), compressions.items[i])]
    ELSE <<>>

\* envelopeCall, bodyCall: the backend's identify() as _outputEnvelope and
\* as identify itself call it
identify(now, envelopeCall, bodyCall) ==
    LET envelope ==
            _outputEnvelope([k \in {"verb"} |-> "Identify"], now, envelopeCall)
        idn == bodyCall.value[1]
        e_identify ==
            [Element(nsoai("Identify")) EXCEPT !.children =
                << TextElement(nsoai("repositoryName"), idn.repositoryName),
                   TextElement(nsoai("baseURL"), idn.baseURL),
                   TextElement(nsoai("protocolVersion"), idn.protocolVersion) >>
                \o [i \in 1..Len(idn.adminEmails) |->
                       TextElement(nsoai("adminEmail"), idn.adminEmails[i])]
                \o << TextElement(nsoai("earliestDatestamp"),
                          datetime_to_datestamp(idn.earliestDatestamp)),
                      TextElement(nsoai("deletedRecord"), idn.deletedRecord),
                      TextElement(nsoai("granularity"), idn.granularity) >>
                \o CompressionElements(idn.compression)]
    IN  IF envelope.raised # NoError THEN envelope
        ELSE IF bodyCall.raised # NoError
        THEN Raise(bodyCall.raised, envelope.value)
        ELSE Ok(SubElement(envelope.value[1], e_identify))

\* A list verb up to its for statement: the envelope, the verb's element,
\* the call of the backend.  a: the verb's arguments, None when omitted.
ListBegin(verbName, op, a, now, envelopeCall) ==
    LET envelope ==
            _outputEnvelope([k \in {"verb"} \cup DOMAIN a |->
                                IF k = "verb" THEN verbName ELSE a[k]],
                            now, envelopeCall)
        call == ServerCall(op, <<>>)
    IN  IF envelope.raised # NoError THEN envelope
        ELSE [raised |-> call.raised,
              value |-> <<SubElement(envelope.value[1],
                                     Element(nsoai(verbName)))>>]

listIdentifiers(a, now, envelopeCall) ==
    ListBegin("ListIdentifiers", "listIdentifiers", a, now, envelopeCall)

listMetadataFormats(a, now, envelopeCall) ==
    ListBegin("ListMetadataFormats", "listMetadataFormats", a, now, envelopeCall)

listRecords(a, now, envelopeCall) ==
    ListBegin("ListRecords", "listRecords", a, now, envelopeCall)

\* the body of listMetadataFormats' for statement
MetadataFormatElement(format) ==
    [Element(nsoai("metadataFormat")) EXCEPT !.children =
        << TextElement(nsoai("metadataPrefix"), format[1]),
           TextElement(nsoai("schema"), format[2]),
           TextElement(nsoai("metadataNamespace"), format[3]) >>]

\* the verb's element: the root's child after responseDate and request
VerbElement(t) == t.children[3]

WithVerbElement(t, el) == [t EXCEPT !.children[3] = el]

(***************************************************************************)
(* XMLServer.handleVerb                                                    *)
(***************************************************************************)
\* str.lower() of one character
lower(c) ==
    CASE c = "A" -> "a" [] c = "B" -> "b" [] c = "C" -> "c" [] c = "D" -> "d"
      [] c = "E" -> "e" [] c = "F" -> "f" [] c = "G" -> "g" [] c = "H" -> "h"
      [] c = "I" -> "i" [] c = "J" -> "j" [] c = "K" -> "k" [] c = "L" -> "l"
      [] c = "M" -> "m" [] c = "N" -> "n" [] c = "O" -> "o" [] c = "P" -> "p"
      [] c = "Q" -> "q" [] c = "R" -> "r" [] c = "S" -> "s" [] c = "T" -> "t"
      [] c = "U" -> "u" [] c = "V" -> "v" [] c = "W" -> "w" [] c = "X" -> "x"
      [] c = "Y" -> "y" [] c = "Z" -> "z" [] OTHER -> c

\* verb[0].lower() + verb[1:], for a verb that has a first character
method_name(v) == lower(SubSeq(v, 1, 1)) \o SubSeq(v, 2, Len(v))

\* the methods getattr finds on an XMLTreeServer
Methods == {"__init__", "getRecord", "identify", "listIdentifiers",
            "listMetadataFormats", "listRecords", "_outputEnvelope",
            "_outputHeader", "_outputMetadata"}

\* its instance attributes, which are no methods
Fields == {"_server", "_metadata_registry"}

ListMethods == {"listIdentifiers", "listMetadataFormats", "listRecords"}

\* the parameters of a method, apart from self
Params(m) ==
    CASE m \in {"listIdentifiers", "listRecords"} ->
             {"metadataPrefix", "from_", "until", "set", "resumptionToken"}
      [] m = "listMetadataFormats" -> {"identifier"}
      [] m = "getRecord" -> {"identifier", "metadataPrefix"}
      [] m = "identify" -> {}
      [] m = "__init__" -> {"server", "metadata_registry"}
      [] m = "_outputHeader" -> {"element", "header"}
      [] m = "_outputMetadata" -> {"element", "metadata_prefix", "metadata"}
      [] OTHER -> {}

\* those without a default
Required(m) ==
    CASE m \in {"listIdentifiers", "listRecords"} -> {"metadataPrefix"}
      [] m = "listMetadataFormats" -> {}
      [] m = "identify" -> {}
      [] OTHER -> Params(m)

\* the keywords of a call: kw maps every name to its value, None, or Absent
Passed(kw) == {k \in DOMAIN kw : kw[k] # Absent}

\* method(**kw) is a TypeError when a keyword is no parameter or a required
\* parameter is not passed; _outputEnvelope(**kw) takes any keyword
CanBind(m, kw) ==
    \/ m = "_outputEnvelope"
    \/ /\ Passed(kw) \subseteq Params(m)
       /\ Required(m) \subseteq Passed(kw)

\* the arguments the method runs with: defaults are None
Bind(m, kw) ==
    IF m = "_outputEnvelope" THEN [k \in Passed(kw) |-> kw[k]]
    ELSE [p \in Params(m) |->
             IF p \in Passed(kw) THEN kw[p] ELSE None]

\* getattr(self._tree_server, method_name)(**kw) up to the method's body:
\* what it raises, and the method whose body runs
Dispatch(v, kw) ==
    IF v = "" THEN [raised |-> "IndexError", method |-> None]
    ELSE IF method_name(v) \notin Methods \cup Fields
    THEN [raised |-> "AttributeError", method |-> None]
    ELSE IF method_name(v) \in Fields
    THEN [raised |-> "TypeError", method |-> None]
    ELSE IF ~CanBind(method_name(v), kw)
    THEN [raised |-> "TypeError", method |-> None]
    ELSE [raised |-> NoError, method |-> method_name(v)]

\* etree.tostring: the document in document order
RECURSIVE tostring(_)
RECURSIVE tostringAll(_)
tostring(el) ==
    << [t |-> "start", tag |-> el.tag, nsmap |-> el.nsmap, attrs |-> el.attrs] >>
    \o (IF el.text = None THEN <<>> ELSE << [t |-> "text", text |-> el.text] >>)
    \o tostringAll(el.children)
    \o << [t |-> "end", tag |-> el.tag] >>

tostringAll(els) ==
    IF els = <<>> THEN <<>> ELSE tostring(Head(els)) \o tostringAll(Tail(els))

\* XMLTreeServer.getRecord: its body is  pass
getRecord(a) == ReturnsNone

\* a variant that serializes whatever tree was built, as a handler that
\* catches the exception and still returns would
handleVerbPartial(outcome) ==
    IF outcome.value = <<>>
    THEN Raise(IF outcome.raised # NoError THEN outcome.raised
               ELSE "AttributeError", <<>>)
    ELSE [raised |-> outcome.raised, value |-> <<tostring(outcome.value[1])>>]

\* handleVerb once the tree server's method ended as outcome: an exception
\* passes through, .getroot() of None is an AttributeError, a tree is
\* serialized
handleVerb(outcome) ==
    IF outcome.raised # NoError THEN Raise(outcome.raised, <<>>)
    ELSE IF outcome.value = <<>> THEN Raise("AttributeError", <<>>)
    ELSE Ok(tostring(outcome.value[1]))

(***************************************************************************)
(* The calls                                                               *)
(***************************************************************************)
\* the verb names a caller dispatches
Verbs == {"Identify", "identify", "GetRecord", "ListIdentifiers",
          "ListMetadataFormats", "ListRecords", "ListSets",
          "IDENTIFY", "Foo", "", "_outputEnvelope", "_outputHeader",
          "__init__", "_server"}

\* the keyword dictionaries a caller passes; the values are strings, as
\* element.set takes them
Kws ==
    [ metadataPrefix : {Absent, None, "oai_dc", "marc21"},
      from_ : {Absent, None, "2004-01-01T00:00:00Z"},
      until : {Absent, None, "2004-12-31T23:59:59Z"},
      set : {Absent, None, "a:b"},
      resumptionToken : {Absent, None, "token-1"},
      identifier : {Absent, None, "oai:1"} ]

\* a variant that reads ahead: two elements before the first is rendered
PullAhead == 1 + 1

\* the elements one step of a for statement takes from the sequence
PullCount == 1

Init ==
    /\ server \in [unsupported : Backends]
    /\ pc = "idle"
    /\ verb = None
    /\ method = None
    /\ args = <<>>
    /\ tree = <<>>
    /\ yielded = <<>>
    /\ fetched = <<>>
    /\ ident = <<>>
    /\ raised = NoError
    /\ result = <<>>

\* the call ends: handleVerb returns or raises
Finish(outcome) ==
    /\ pc' = "done"
    /\ tree' = outcome.value
    /\ raised' = handleVerb(outcome).raised
    /\ result' = handleVerb(outcome).value

\* handleVerb(v, (), kw) reaches the body of method m
Call(v, kw, m) ==
    /\ Dispatch(v, kw) = [raised |-> NoError, method |-> m]
    /\ verb' = v
    /\ method' = m
    /\ args' = Bind(m, kw)

\* the verb resolves to no method, or the method cannot take the keywords
HandleVerbFails ==
    /\ pc = "idle"
    /\ \E v \in Verbs, kw \in Kws :
        /\ Dispatch(v, kw).raised # NoError
        /\ verb' = v
        /\ method' = Dispatch(v, kw).method
        /\ args' = <<>>
        /\ Finish(Raise(Dispatch(v, kw).raised, <<>>))
        /\ UNCHANGED <<server, yielded, fetched, ident>>

HandleGetRecord ==
    /\ pc = "idle"
    /\ \E v \in Verbs, kw \in Kws :
        /\ Call(v, kw, "getRecord")
        /\ Finish(getRecord(Bind("getRecord", kw)))
        /\ UNCHANGED <<server, yielded, fetched, ident>>

HandleIdentify ==
    /\ pc = "idle"
    /\ \E v \in Verbs, kw \in Kws :
        /\ Call(v, kw, "identify")
        /\ \E now \in Clock, id1 \in Identities, id2 \in Identities :
              LET outcome == identify(now, ServerCall("identify", id1),
                                      ServerCall("identify", id2))
              IN  /\ ident' = IF outcome.raised = NoError
                              THEN <<id2>> ELSE <<>>
                  /\ Finish(outcome)
        /\ UNCHANGED <<server, yielded, fetched>>

\* getattr finds the private method too
HandleOutputEnvelope ==
    /\ pc = "idle"
    /\ \E v \in Verbs, kw \in Kws :
        /\ Call(v, kw, "_outputEnvelope")
        /\ \E now \in Clock, id1 \in Identities :
              Finish(_outputEnvelope(Bind("_outputEnvelope", kw), now,
                                     ServerCall("identify", id1)))
        /\ UNCHANGED <<server, yielded, fetched, ident>>

\* a list verb up to its for statement
HandleList ==
    /\ pc = "idle"
    /\ \E v \in Verbs, kw \in Kws, m \in ListMethods :
        /\ Call(v, kw, m)
        /\ \E now \in Clock, id1 \in Identities :
              LET idc == ServerCall("identify", id1)
                  outcome ==
                      CASE m = "listIdentifiers" ->
                               listIdentifiers(Bind(m, kw), now, idc)
                        [] m = "listMetadataFormats" ->
                               listMetadataFormats(Bind(m, kw), now, idc)
                        [] m = "listRecords" ->
                               listRecords(Bind(m, kw), now, idc)
              IN  IF outcome.raised # NoError
                  THEN Finish(outcome)
                  ELSE /\ pc' = "loop"
                       /\ tree' = outcome.value
                       /\ UNCHANGED <<raised, result>>
        /\ UNCHANGED <<server, yielded, fetched, ident>>

\* the for statement takes the next element of the backend sequence
Pull ==
    /\ pc = "loop"
    /\ Len(yielded) + PullCount <= MaxItems
    /\ \E items \in [1..PullCount -> Items(method)] :
          /\ yielded' = yielded \o items
          /\ fetched' = fetched \o items
    /\ pc' = "body"
    /\ UNCHANGED <<server, verb, method, args, tree, ident, raised, result>>

\* the backend sequence ends: the method returns its tree
StopIteration ==
    /\ pc = "loop"
    /\ Finish(Ok(tree[1]))
    /\ UNCHANGED <<server, verb, method, args, yielded, fetched, ident>>

\* the backend sequence raises instead of yielding
SequenceRaises ==
    /\ pc = "loop"
    /\ Finish(Raise(ServerSignal(method), tree))
    /\ UNCHANGED <<server, verb, method, args, yielded, fetched, ident>>

\* after the body of a for statement
AfterBody ==
    /\ fetched' = Tail(fetched)
    /\ pc' = IF Tail(fetched) = <<>> THEN "loop" ELSE "body"

\* listIdentifiers: self._outputHeader(e_listIdentifiers, header)
RenderHeader ==
    /\ pc = "body"
    /\ method = "listIdentifiers"
    /\ tree' = << WithVerbElement(tree[1],
                     _outputHeader(VerbElement(tree[1]), Head(fetched))) >>
    /\ AfterBody
    /\ UNCHANGED <<server, verb, method, args, yielded, ident, raised, result>>

\* listMetadataFormats: the metadataFormat element
RenderMetadataFormat ==
    /\ pc = "body"
    /\ method = "listMetadataFormats"
    /\ tree' = << WithVerbElement(tree[1],
                     SubElement(VerbElement(tree[1]),
                                MetadataFormatElement(Head(fetched)))) >>
    /\ AfterBody
    /\ UNCHANGED <<server, verb, method, args, yielded, ident, raised, result>>

\* listRecords: e_record = SubElement(..); self._outputHeader(e_record, header)
RenderRecordHeader ==
    /\ pc = "body"
    /\ method = "listRecords"
    /\ tree' = << WithVerbElement(tree[1],
                     SubElement(VerbElement(tree[1]),
                                _outputHeader(Element(nsoai("record")),
                                              Head(fetched)[1]))) >>
    /\ pc' = "metadata"
    /\ UNCHANGED <<server, verb, method, args, yielded, fetched, ident,
                   raised, result>>

\* listRecords: self._outputMetadata(e_record, metadataPrefix, metadata)
RenderMetadata ==
    LET e_listRecords == VerbElement(tree[1])
        n == Len(e_listRecords.children)
        outcome == _outputMetadata(e_listRecords.children[n],
                                   args["metadataPrefix"], Head(fetched)[2])
        built == WithVerbElement(tree[1],
                     [e_listRecords EXCEPT !.children[n] = outcome.value[1]])
    IN  /\ pc = "metadata"
        /\ IF outcome.raised # NoError
           THEN /\ Finish(Raise(outcome.raised, <<built>>))
                /\ UNCHANGED fetched
           ELSE /\ tree' = <<built>>
                /\ AfterBody
                /\ UNCHANGED <<raised, result>>
        /\ UNCHANGED <<server, verb, method, args, yielded, ident>>

Next ==
    \/ HandleVerbFails
    \/ HandleGetRecord
    \/ HandleIdentify
    \/ HandleOutputEnvelope
    \/ HandleList
    \/ Pull
    \/ StopIteration
    \/ SequenceRaises
    \/ RenderHeader
    \/ RenderMetadataFormat
    \/ RenderRecordHeader
    \/ RenderMetadata

Spec == Init /\ [][Next]_vars

(***************************************************************************)
(* The schema the root's schemaLocation names, OAI-PMH.xsd, as far as the  *)
(* documents built here can break it: the root holds responseDate,         *)
(* request and one verb element; Identify has at least one adminEmail and  *)
(* a deletedRecord of no, transient or persistent; ListIdentifiers,        *)
(* ListRecords and ListMetadataFormats each hold at least one entry.       *)
(***************************************************************************)
SchemaValid(root) ==
    /\ Len(root.children) = 3
    /\ root.children[1].tag = nsoai("responseDate")
    /\ root.children[2].tag = nsoai("request")
    /\ root.children[3].tag \in
           {nsoai("Identify"), nsoai("ListIdentifiers"),
            nsoai("ListRecords"), nsoai("ListMetadataFormats")}
    /\ root.children[3].tag = nsoai("Identify") =>
           /\ \E i \in 1..Len(root.children[3].children) :
                 root.children[3].children[i].tag = nsoai("adminEmail")
           /\ \A i \in 1..Len(root.children[3].children) :
                 root.children[3].children[i].tag = nsoai("deletedRecord") =>
                     root.children[3].children[i].text
                         \in {"no", "transient", "persistent"}
    /\ root.children[3].tag # nsoai("Identify") =>
           root.children[3].children # <<>>

(***************************************************************************)
(* Properties                                                              *)
(***************************************************************************)
\* the six verbs of the protocol, and the methods their names resolve to
ProtocolVerbs == {"Identify", "GetRecord", "ListIdentifiers",
                  "ListMetadataFormats", "ListRecords", "ListSets"}

SixVerbMethods == {method_name(V) : V \in ProtocolVerbs}

\* the verb operations of XMLTreeServer that build a document
DocumentMethods == {"identify", "listIdentifiers", "listRecords",
                    "listMetadataFormats"}

\* a verb operation has built its envelope
EnvelopeBuilt ==
    /\ method \in DocumentMethods
    /\ tree # <<>>

\* the non-null arguments of the call, from_ written as from
EchoedArguments ==
    { <<IF k = "from_" THEN "from" ELSE k, args[k]>> :
          k \in {a \in DOMAIN args : args[a] # None} }

\* C1 as stated: the attributes of the request element are exactly the
\* non-null arguments passed to the verb operation, from_ written as from,
\* and no other attribute appears.
C1_RequestAttrsAreArguments ==
    EnvelopeBuilt => tree[1].children[2].attrs = EchoedArguments

\* C1 as amended: the attributes of the request element are the non-null
\* arguments passed to the verb operation, from_ written as from, and one
\* more, verb, whose value is the protocol name of the verb.
C1_RequestAttrsAreArgumentsAndVerb ==
    EnvelopeBuilt =>
        \E V \in ProtocolVerbs :
            /\ method_name(V) = method
            /\ tree[1].children[2].attrs = EchoedArguments \cup {<<"verb", V>>}

\* a returned ListIdentifiers document with from_ supplied, until passed as
\* None or omitted
C1_Witness ==
    /\ result # <<>>
    /\ method = "listIdentifiers"
    /\ args["from_"] # None
    /\ args["until"] = None
    /\ args["metadataPrefix"] # None

\* C2: a verb name that, with its first character lower-cased, is none of
\* the six verbs ends in the error BadVerb, and no document is returned.
\* handleVerb names no BadVerb; any exception is taken for it here.
C2_UnknownVerbIsBadVerb ==
    (pc = "done" /\ (verb = "" \/ method_name(verb) \notin SixVerbMethods))
        => (raised # NoError /\ result = <<>>)

\* Identify is returned
IdentifyReturned ==
    /\ method = "identify"
    /\ result # <<>>
    /\ ident # <<>>

\* the children of the Identify element
IdentifyChildren == VerbElement(tree[1]).children

\* the number of compression children among them
CompressionCount ==
    Len(SelectSeq(IdentifyChildren, LAMBDA e : e.tag = nsoai("compression")))

\* for a compression value other than ['identity']: the Identify body ends
\* with granularity and then one compression child per entry, in order
CompressionPerEntry ==
    LET items == ident[1].compression.items
        n == Len(IdentifyChildren)
    IN  /\ CompressionCount = Len(items)
        /\ n > Len(items)
        /\ IdentifyChildren[n - Len(items)].tag = nsoai("granularity")
        /\ \A i \in 1..Len(items) :
              /\ IdentifyChildren[n - Len(items) + i].tag = nsoai("compression")
              /\ IdentifyChildren[n - Len(items) + i].text = items[i]

\* C3 as stated: Identify has no compression child if and only if the
\* identity's compression is exactly ['identity']; any other value gives one
\* compression child per entry, in order, after granularity.
C3_CompressionOmittedIffIdentity ==
    IdentifyReturned =>
        /\ (CompressionCount = 0) <=>
               (ident[1].compression = PyList(<<"identity">>))
        /\ ident[1].compression # PyList(<<"identity">>) => CompressionPerEntry

\* C3 as amended: Identify has no compression child if and only if the
\* identity's compression is exactly ['identity'] or has no entry; any value
\* other than ['identity'] gives one compression child per entry, in order,
\* after granularity.
C3_CompressionOmittedIffIdentityOrEmpty ==
    IdentifyReturned =>
        /\ (CompressionCount = 0) <=>
               \/ ident[1].compression = PyList(<<"identity">>)
               \/ ident[1].compression.items = <<>>
        /\ ident[1].compression # PyList(<<"identity">>) => CompressionPerEntry

\* Identify returned for a backend whose compression is ['identity', 'gzip']
C3_Witness ==
    /\ IdentifyReturned
    /\ ident[1].compression = PyList(<<"identity", "gzip">>)
    /\ CompressionCount = 2

\* the exceptions that originate while a document is built: the backend's
\* signal and the registry's rejection of a prefix
ConstructionErrors == {"NotImplementedError", "UnsupportedMetadataFormat"}

\* C4: when the backend signals an unsupported operation or the registry
\* rejects the prefix, at any point of the call, the caller gets the
\* exception and nothing else: no document, no partial tree, no bytes.
C4_ErrorAbortsCall ==
    /\ raised # NoError => result = <<>>
    /\ (pc = "done" /\ result = <<>>) => raised # NoError
    /\ (pc # "done") => (raised = NoError /\ result = <<>>)

\* the backend sequence of listRecords raises after a record was rendered
\* into the tree
C4_Witness ==
    /\ pc = "done"
    /\ raised \in ConstructionErrors
    /\ method = "listRecords"
    /\ tree # <<>>
    /\ Len(tree[1].children) = 3
    /\ Len(VerbElement(tree[1]).children) >= 1
    /\ Len(VerbElement(tree[1]).children[1].children) = 2

\* C5: a document handleVerb returns for a verb is valid against the
\* schema; one that is not ends the call in an error, with no bytes.
C5_ReturnedDocumentIsValid ==
    (result # <<>> /\ method \in DocumentMethods) => SchemaValid(tree[1])

\* the exception of a backend that does not implement an operation
CapabilityNotImplemented == "NotImplementedError"

\* C6: a verb dispatched with arguments its operation takes, to a backend
\* that does not implement the operation, fails with
\* CapabilityNotImplemented and returns nothing.
C6_UnsupportedIsCapabilityNotImplemented ==
    ( /\ pc = "done"
      /\ verb # ""
      /\ method_name(verb) \in SixVerbMethods
      /\ method_name(verb) \in server.unsupported
      /\ raised # "TypeError" )
        => (raised = CapabilityNotImplemented /\ result = <<>>)

\* C7: the root of every document a verb operation returns has exactly
\* three children, in this order: responseDate, request with the backend
\* identity's base URL as its text, and the element named after the verb;
\* also when the backend sequence is empty.
C7_TopLevelChildren ==
    (result # <<>> /\ method \in DocumentMethods) =>
        /\ Len(tree[1].children) = 3
        /\ tree[1].children[1].tag = nsoai("responseDate")
        /\ tree[1].children[2].tag = nsoai("request")
        /\ tree[1].children[2].text \in {i.baseURL : i \in Identities}
        /\ \E V \in ProtocolVerbs :
              /\ method_name(V) = method
              /\ tree[1].children[3].tag = nsoai(V)

\* ListRecords returned for a backend sequence that yields nothing
C7_Witness ==
    /\ result # <<>>
    /\ method = "listRecords"
    /\ yielded = <<>>
    /\ VerbElement(tree[1]).children = <<>>

\* the fifteen Dublin Core fields in the order C8 gives them
FieldOrder ==
    << "title", "creator", "subject", "description", "publisher",
       "contributor", "date", "type", "format", "identifier",
       "source", "language", "relation", "coverage", "rights" >>

\* the place of an element of a dc fragment in that order, 0 for none
FieldPlace(e) ==
    IF \E p \in 1..Len(FieldOrder) : e.tag = nsdc(FieldOrder[p])
    THEN CHOOSE p \in 1..Len(FieldOrder) : e.tag = nsdc(FieldOrder[p])
    ELSE 0

\* the texts of the elements of a fragment that carry one field
FieldTexts(out, name) ==
    LET es == SelectSeq(out, LAMBDA e : e.tag = nsdc(name))
    IN  [i \in 1..Len(es) |-> es[i].text]

\* what C8 asks of the children out of a dc element written for map
WrittenAsClaimed(out, map) ==
    /\ \A j \in 1..Len(out) : FieldPlace(out[j]) # 0
    /\ \A j \in 1..Len(out), k \in 1..Len(out) :
          j < k => FieldPlace(out[j]) <= FieldPlace(out[k])
    /\ \A p \in 1..Len(FieldOrder) :
          FieldTexts(out, FieldOrder[p]) =
              IF FieldOrder[p] \in DOMAIN map THEN map[FieldOrder[p]] ELSE <<>>

\* the record elements of ListRecords
RecordElements == VerbElement(tree[1]).children

\* record i has its metadata written
MetadataWritten(i) ==
    /\ Len(RecordElements[i].children) = 2
    /\ RecordElements[i].children[2].children # <<>>

\* listRecords is in its loop or has ended
InListRecords ==
    /\ method = "listRecords"
    /\ tree # <<>>
    /\ Len(tree[1].children) = 3

\* C8: the dc element written for a record holds one element per value of
\* each of the fifteen fields the record's map has, fields in the fixed
\* order, values in the map's list order, and nothing for a field the map
\* lacks or for a key that is no field.  The registered prefix of every
\* record rendered gets such an element.
C8_DublinCoreWriter ==
    InListRecords =>
        \A i \in 1..Len(RecordElements) :
            /\ (args["metadataPrefix"] \in Registered
                    /\ (i < Len(RecordElements) \/ pc \in {"loop", "done"}))
                   => MetadataWritten(i)
            /\ MetadataWritten(i) =>
                   /\ Len(RecordElements[i].children[2].children) = 1
                   /\ RecordElements[i].children[2].children[1].tag = nsoaidc("dc")
                   /\ WrittenAsClaimed(
                          RecordElements[i].children[2].children[1].children,
                          yielded[i][2])

\* a record whose map has title, creator and a key that is no field
C8_Witness ==
    /\ InListRecords
    /\ Len(RecordElements) >= 1
    /\ MetadataWritten(1)
    /\ DOMAIN yielded[1][2] = {"creator", "title", "foo"}
    /\ Len(RecordElements[1].children[2].children[1].children) = 3

\* a list verb is in its loop or has ended
InList ==
    /\ method \in ListMethods
    /\ tree # <<>>
    /\ Len(tree[1].children) = 3

\* fragment frag is the one of element item: it carries the item's key
FragmentOf(frag, item) ==
    CASE method = "listIdentifiers" ->
             /\ frag.tag = nsoai("header")
             /\ frag.children[1].text = item.identifier
      [] method = "listRecords" ->
             /\ frag.tag = nsoai("record")
             /\ frag.children[1].children[1].text = item[1].identifier
      [] method = "listMetadataFormats" ->
             /\ frag.tag = nsoai("metadataFormat")
             /\ frag.children[1].text = item[1]

\* fragment frag is finished
FragmentComplete(frag) ==
    CASE method = "listIdentifiers" -> Len(frag.children) >= 2
      [] method = "listRecords" ->
             /\ Len(frag.children) = 2
             /\ frag.children[2].children # <<>>
      [] method = "listMetadataFormats" -> Len(frag.children) = 3

\* C9: at every point of a list verb the elements pulled from the backend
\* sequence are at most one more than the fragments appended, fragment i
\* is the one of the i-th element pulled, and every element but the last
\* pulled has its fragment finished.
C9_LazyConsumption ==
    InList =>
        /\ Len(VerbElement(tree[1]).children) <= Len(yielded)
        /\ Len(yielded) <= Len(VerbElement(tree[1]).children) + 1
        /\ \A i \in 1..Len(VerbElement(tree[1]).children) :
              FragmentOf(VerbElement(tree[1]).children[i], yielded[i])
        /\ \A i \in 1..(Len(yielded) - 1) :
              FragmentComplete(VerbElement(tree[1]).children[i])
        /\ pc = "loop" => Len(yielded) = Len(VerbElement(tree[1]).children)

\* the second element is pulled and the first fragment is finished
C9_Witness ==
    /\ InList
    /\ pc = "body"
    /\ Len(yielded) = 2
    /\ Len(VerbElement(tree[1]).children) = 1
    /\ yielded[1] # yielded[2]

\* the exception of the registry for a prefix without a writer
UnsupportedMetadataFormat == "UnsupportedMetadataFormat"

\* the header element of a record, fully emitted: identifier, datestamp and
\* every setSpec
HeaderEmitted(e_header, header) ==
    /\ e_header.tag = nsoai("header")
    /\ Len(e_header.children) = 2 + Len(header.setSpec)
    /\ e_header.children[1] = TextElement(nsoai("identifier"), header.identifier)
    /\ e_header.children[2].tag = nsoai("datestamp")
    /\ \A i \in 1..Len(header.setSpec) :
          e_header.children[2 + i] = TextElement(nsoai("setSpec"), header.setSpec[i])

\* listRecords runs with a prefix that is not registered
UnregisteredListRecords ==
    /\ method = "listRecords"
    /\ args["metadataPrefix"] \notin Registered

\* C10 as stated: a listRecords call with an unregistered prefix ends in
\* UnsupportedMetadataFormat (unless the backend itself failed first).
C10_UnregisteredAlwaysFails ==
    (UnregisteredListRecords /\ args["metadataPrefix"] # None /\ pc = "done"
        /\ raised # CapabilityNotImplemented)
        => raised = UnsupportedMetadataFormat

\* C10 as amended: a listRecords call with an unregistered prefix ends in
\* UnsupportedMetadataFormat when the backend sequence yields its first
\* record; the error comes after that record's header is fully emitted and
\* before any fragment is appended under its metadata element.
C10_UnregisteredFailsAtFirstRecord ==
    (UnregisteredListRecords /\ yielded # <<>>) =>
        /\ Len(yielded) = 1
        /\ pc \in {"body", "metadata", "done"}
        /\ pc = "body" => (raised = NoError /\ RecordElements = <<>>)
        /\ pc = "metadata" =>
              /\ raised = NoError
              /\ Len(RecordElements) = 1
              /\ Len(RecordElements[1].children) = 1
              /\ HeaderEmitted(RecordElements[1].children[1], yielded[1][1])
        /\ pc = "done" =>
              /\ raised = UnsupportedMetadataFormat
              /\ result = <<>>
              /\ Len(RecordElements) = 1
              /\ Len(RecordElements[1].children) = 2
              /\ HeaderEmitted(RecordElements[1].children[1], yielded[1][1])
              /\ RecordElements[1].children[2] = Element(nsoai("metadata"))

\* the call failed on a record whose header has setSpecs
C10_Witness ==
    /\ UnregisteredListRecords
    /\ pc = "done"
    /\ raised = UnsupportedMetadataFormat
    /\ yielded # <<>>
    /\ Len(yielded[1][1].setSpec) = 2

====
